---- MODULE Spec2Model ----
(***************************************************************************)
(* A model of tffilesync.Syncer: the constructor's pull of the remote      *)
(* directory, the background loop thread (_loop) and the control methods   *)
(* stop / kick / epoch, together with the test helper _kick_sync.          *)
(*                                                                         *)
(* Two threads: the caller (constructor, writes to the local directory,    *)
(* kick, epoch, stop, _kick_sync) and the loop thread.  The mutex _mu is   *)
(* the variable mu; the condition variable _cond is the pair               *)
(* (loopPc = "wait", notified).  Every `with self._mu:` block of the       *)
(* caller is one step, taken when the mutex is free.                       *)
(***************************************************************************)
EXTENDS Integers, FiniteSets, TLC

(* ---------------------------------------------------------------- bounds *)
Names == {"f0.txt", "f1.txt"}   \* the entry names of the test
Data == {1, 2, 3}               \* file contents
InitData == {1}                 \* contents a directory may hold initially
Stamps == {0, 1}                \* modification stamps
MaxWrites == 1                  \* writes the caller makes to the local directory
MaxPasses == 2                  \* watch passes explored before the one stop asks for

(* ------------------------------------------------------ program constants *)
_FULL_SYNC_INTERVAL_S == 6 * 60
WAIT_TIMEOUT_S == 60
MAX_ATTEMPTS == 10

(* ------------------------------------------------------------- the state *)
VARIABLES
    remote,               \* the remote directory: name -> file
    local,                \* the local directory: name -> file
    mu,                   \* self._mu: "free" or the thread holding it
    stopping,             \* self._stopping
    epoch,                \* self._epoch
    notified,             \* self._cond: the waiting loop thread has been notified
    now,                  \* _loop's `now`: the latest reading of time.time()
    callerPc,             \* where the caller thread is
    e,                    \* _kick_sync's local `epoch`
    loopPc,               \* where the loop thread is
    src_ents,             \* _loop's remembered snapshot
    new_ents,             \* the listing the running `for` loop iterates over
    done,                 \* _loop's `done`
    last_full_sync_time,  \* _loop's last_full_sync_time
    todo,                 \* names the running `for` loop has still to visit
    cur,                  \* the name whose _copy_file call is in flight
    faulty,               \* whether the storage layer may fail in this run
    writes,               \* number of writes the caller has made
    \* history variables: they record what happened and steer nothing
    ctor_local,           \* the local directory as the constructor found it
    dirty,                \* names written since their last successful push
    changed,              \* whether local was written since the last listing
    kick_in_pass,         \* a kick() arrived while the loop was not waiting
    passes,               \* number of watch passes completed
    stop_returned,        \* a stop() call has returned
    last_clear_time,      \* clock reading of the last pass that cleared src_ents
    \* one _copy_file call followed attempt by attempt
    copyPc,               \* where the call is
    copy_outcomes,        \* whether the i-th gfile.copy call, if made, succeeds
    copy_retries,         \* _copy_file's `retries`
    copy_calls            \* gfile.copy calls made so far

vars == <<remote, local, mu, stopping, epoch, notified, now, callerPc, e,
          loopPc, src_ents, new_ents, done, last_full_sync_time, todo, cur,
          faulty, writes, ctor_local, dirty, changed,
          kick_in_pass, passes, stop_returned, last_clear_time,
          copyPc, copy_outcomes, copy_retries, copy_calls>>

(* ------------------------------------------------------------ the files *)
\* Content d has length Length(d): 1 and 2 have equal length, 3 is longer.
Length(d) == (d + 1) \div 2

File(d, t) == [data |-> d, mtime |-> t]

\* The directories the storage may hold when the Syncer is constructed: none,
\* one or both of the names (which one of the two is immaterial).
InitNames == {{}, {"f0.txt"}, Names}

InitDirs ==
    UNION { [S -> {File(d, 0) : d \in InitData}] : S \in InitNames }

EmptyDir == [n \in {} |-> File(1, 0)]

NoName == "none"

_FileStat(f) ==
    [length |-> Length(f.data), mtime_nsec |-> f.mtime, is_directory |-> FALSE]

_list_dir(dir) == [n \in DOMAIN dir |-> _FileStat(dir[n])]

EmptyEnts == _list_dir(EmptyDir)

\* The stamp a file gets when it is written over an entry stamped t: the
\* same one when both writes fall in one granule of the file system's clock.
NextStamps(t) == {t, t + 1} \cap Stamps

Put(dir, name, f) ==
    [n \in DOMAIN dir \cup {name} |-> IF n = name THEN f ELSE dir[n]]

\* gfile.copy(src_path, dest_path, overwrite=True): the destination gets the
\* source's content.  Its stamp is read by nobody before the next write of
\* the entry (the loop's snapshot starts empty, remote stamps are only listed
\* by the constructor), so the copy is taken to fall in the entry's granule.
CopiedStamp(dst, name) == IF name \in DOMAIN dst THEN dst[name].mtime ELSE 0

GfileCopy(src, dst, name) ==
    Put(dst, name, File(src[name].data, CopiedStamp(dst, name)))

\* The outcomes of the successive gfile.copy calls of one _copy_file call:
\* outcomes[i] is whether call i succeeds.
AllSucceed == { [i \in 1..MAX_ATTEMPTS |-> TRUE] }

SomeFail == { [i \in 1..MAX_ATTEMPTS |-> i >= k] : k \in 1..(MAX_ATTEMPTS + 1) }

OutcomeSeqs(mayFail) == IF mayFail THEN SomeFail ELSE AllSucceed

\* _copy_file's retry loop from attempt `retries` on: the number of
\* gfile.copy calls made and whether one succeeded.
RECURSIVE CopyAttempts(_, _)
CopyAttempts(outcomes, retries) ==
    IF retries >= MAX_ATTEMPTS
    THEN [calls |-> 0, ok |-> FALSE]
    ELSE IF outcomes[retries + 1]
         THEN [calls |-> 1, ok |-> TRUE]
         ELSE LET rest == CopyAttempts(outcomes, retries + 1)
              IN  [calls |-> rest.calls + 1, ok |-> rest.ok]

\* The runs one _copy_file call can take: the gfile.copy calls it makes and
\* whether one of them succeeded.
CopyRuns ==
    [mayFail \in BOOLEAN |->
        { CopyAttempts(outcomes, 0) : outcomes \in OutcomeSeqs(mayFail) }]

\* _copy_file(src_dir, dest_dir, file_name): the destination directory after
\* the call, for the run it took.
_copy_file(src, dst, name, run) ==
    IF run.ok THEN GfileCopy(src, dst, name) ELSE dst

\* the comparison of the modification times is left out
_has_file_by_length(dir_ents, name, want_stat) ==
    IF name \notin DOMAIN dir_ents
    THEN FALSE
    ELSE dir_ents[name].length = want_stat.length

_has_file(dir_ents, name, want_stat) ==
    IF name \notin DOMAIN dir_ents
    THEN FALSE
    ELSE IF dir_ents[name].length # want_stat.length
         THEN FALSE
         ELSE IF dir_ents[name].mtime_nsec # want_stat.mtime_nsec
              THEN FALSE
              ELSE TRUE

\* Every local entry is in remote with the same content.
InSync ==
    \A n \in DOMAIN local : n \in DOMAIN remote /\ remote[n].data = local[n].data

(* ------------------------------------------------------------------ Init *)
\* The syncer before its constructor runs.
SyncerInit ==
    /\ remote \in InitDirs
    /\ local \in {EmptyDir, remote}
    /\ faulty \in BOOLEAN
    /\ mu = "free"
    /\ stopping = FALSE
    /\ epoch = 0
    /\ notified = FALSE
    /\ now = 0
    /\ callerPc = "new"
    /\ e = 0
    /\ loopPc = "unstarted"
    /\ src_ents = EmptyEnts
    /\ new_ents = EmptyEnts
    /\ done = FALSE
    /\ last_full_sync_time = 0
    /\ todo = {}
    /\ cur = NoName
    /\ writes = 0
    /\ ctor_local = local
    /\ dirty = {}
    /\ changed = "no"
    /\ kick_in_pass = FALSE
    /\ passes = 0
    /\ stop_returned = FALSE
    /\ last_clear_time = 0

\* No _copy_file call is followed attempt by attempt.
Init ==
    /\ SyncerInit
    /\ copyPc = "idle"
    /\ copy_outcomes = [i \in 1..MAX_ATTEMPTS |-> TRUE]
    /\ copy_retries = 0
    /\ copy_calls = 0

(* ------------------------------------------------------- Syncer.__init__ *)
\* remote_ents = _list_dir(remote_dir)
CtorList ==
    /\ callerPc = "new"
    /\ new_ents' = _list_dir(remote)
    /\ todo' = DOMAIN remote
    /\ callerPc' = "ctor_iter"
    /\ UNCHANGED <<remote, local, mu, stopping, epoch, notified, now, e,
                   loopPc, src_ents, done, last_full_sync_time, cur, faulty,
                   writes, ctor_local, dirty, changed, kick_in_pass, passes,
                   stop_returned, last_clear_time, copyPc, copy_outcomes,
                   copy_retries, copy_calls>>

\* gfile.listdir / gfile.stat raises: the constructor raises, no thread starts.
CtorListFails ==
    /\ callerPc = "new"
    /\ faulty
    /\ callerPc' = "ctor_raised"
    /\ UNCHANGED <<remote, local, mu, stopping, epoch, notified, now, e,
                   loopPc, src_ents, new_ents, done, last_full_sync_time,
                   todo, cur, faulty, writes, ctor_local, dirty, changed,
                   kick_in_pass, passes, stop_returned, last_clear_time,
                   copyPc, copy_outcomes, copy_retries, copy_calls>>

\* for name, ent in remote_ents.items(): _copy_file(remote_dir, local_dir, name)
CtorNext ==
    /\ callerPc = "ctor_iter"
    /\ \E n \in todo :
          /\ cur' = n
          /\ todo' = todo \ {n}
    /\ callerPc' = "ctor_copy"
    /\ UNCHANGED <<remote, local, mu, stopping, epoch, notified, now, e,
                   loopPc, src_ents, new_ents, done, last_full_sync_time,
                   faulty, writes, ctor_local, dirty, changed, kick_in_pass,
                   passes, stop_returned, last_clear_time, copyPc,
                   copy_outcomes, copy_retries, copy_calls>>

CtorCopyReturn ==
    /\ callerPc = "ctor_copy"
    /\ \E run \in CopyRuns[faulty] :
          local' = _copy_file(remote, local, cur, run)
    /\ cur' = NoName
    /\ callerPc' = "ctor_iter"
    /\ UNCHANGED <<remote, mu, stopping, epoch, notified, now, e, loopPc,
                   src_ents, new_ents, done, last_full_sync_time, todo,
                   faulty, writes, ctor_local, dirty, changed, kick_in_pass,
                   passes, stop_returned, last_clear_time, copyPc,
                   copy_outcomes, copy_retries, copy_calls>>

\* the thread is started, and the constructor returns, before the pull is over
CtorStartsThreadEarly ==
    /\ callerPc = "ctor_iter"
    /\ loopPc' = "begin"
    /\ callerPc' = "idle"
    /\ new_ents' = EmptyEnts
    /\ UNCHANGED <<remote, local, mu, stopping, epoch, notified, now, e,
                   src_ents, done, last_full_sync_time, todo, cur, faulty,
                   writes, ctor_local, dirty, changed, kick_in_pass, passes,
                   stop_returned, last_clear_time, copyPc, copy_outcomes,
                   copy_retries, copy_calls>>

\* self._thread = threading.Thread(target=self._loop); self._thread.start()
CtorStartThread ==
    /\ callerPc = "ctor_iter"
    /\ todo = {}
    /\ loopPc' = "begin"
    /\ callerPc' = "idle"
    /\ new_ents' = EmptyEnts
    /\ UNCHANGED <<remote, local, mu, stopping, epoch, notified, now, e,
                   src_ents, done, last_full_sync_time, todo, cur, faulty,
                   writes, ctor_local, dirty, changed, kick_in_pass, passes,
                   stop_returned, last_clear_time, copyPc, copy_outcomes,
                   copy_retries, copy_calls>>

(* ------------------------------------------------- the caller's program *)
\* self._cond.notify(): wakes the loop thread if it is waiting; otherwise
\* the notification has no effect.
Notify == IF loopPc = "wait" THEN TRUE ELSE notified

\* The loop thread is executing a pass: it is past the `with` block and is
\* reading the clock, listing or copying.
InPass == loopPc \in {"timecheck", "list", "iter", "copy"}

\* The running pass has listed the local directory.
Listed == loopPc \in {"iter", "copy"}

\* The caller writes content d to local file n (open(..., 'w'); write).
Write(n, d) ==
    /\ callerPc = "idle"
    /\ writes < MaxWrites
    /\ \E t \in (IF n \in DOMAIN local THEN NextStamps(local[n].mtime) ELSE {0}) :
          /\ n \in DOMAIN local => File(d, t) # local[n]
          /\ local' = Put(local, n, File(d, t))
    /\ writes' = writes + 1
    /\ dirty' = dirty \cup {n}
    /\ changed' = IF Listed THEN "in_pass" ELSE "after_pass"
    /\ UNCHANGED <<remote, mu, stopping, epoch, notified, now, callerPc, e,
                   loopPc, src_ents, new_ents, done, last_full_sync_time,
                   todo, cur, faulty, ctor_local, kick_in_pass, passes,
                   stop_returned, last_clear_time, copyPc, copy_outcomes,
                   copy_retries, copy_calls>>

\* The caller has written all it will write.
StopWriting ==
    /\ callerPc = "idle"
    /\ writes < MaxWrites
    /\ writes' = MaxWrites
    /\ UNCHANGED <<remote, local, mu, stopping, epoch, notified, now,
                   callerPc, e, loopPc, src_ents, new_ents, done,
                   last_full_sync_time, todo, cur, faulty, ctor_local, dirty,
                   changed, kick_in_pass, passes, stop_returned,
                   last_clear_time, copyPc, copy_outcomes, copy_retries,
                   copy_calls>>

\* Syncer.kick
Kick ==
    /\ callerPc = "idle"
    /\ mu = "free"
    /\ notified' = Notify
    /\ kick_in_pass' = (kick_in_pass \/ InPass)
    /\ UNCHANGED <<remote, local, mu, stopping, epoch, now, callerPc, e,
                   loopPc, src_ents, new_ents, done, last_full_sync_time,
                   todo, cur, faulty, writes, ctor_local, dirty, changed,
                   passes, stop_returned, last_clear_time, copyPc,
                   copy_outcomes, copy_retries, copy_calls>>

\* _kick_sync: epoch = syncer.epoch()
KsEpoch ==
    /\ callerPc = "idle"
    /\ mu = "free"
    /\ e' = epoch
    /\ callerPc' = "ks_kick"
    /\ UNCHANGED <<remote, local, mu, stopping, epoch, notified, now, loopPc,
                   src_ents, new_ents, done, last_full_sync_time, todo, cur,
                   faulty, writes, ctor_local, dirty, changed, kick_in_pass,
                   passes, stop_returned, last_clear_time, copyPc,
                   copy_outcomes, copy_retries, copy_calls>>

\* _kick_sync: syncer.kick()
KsKick ==
    /\ callerPc = "ks_kick"
    /\ mu = "free"
    /\ notified' = Notify
    /\ kick_in_pass' = (kick_in_pass \/ InPass)
    /\ callerPc' = "ks_poll"
    /\ UNCHANGED <<remote, local, mu, stopping, epoch, now, e, loopPc,
                   src_ents, new_ents, done, last_full_sync_time, todo, cur,
                   faulty, writes, ctor_local, dirty, changed, passes,
                   stop_returned, last_clear_time, copyPc, copy_outcomes,
                   copy_retries, copy_calls>>

\* _kick_sync: while epoch == syncer.epoch(): time.sleep(0.1)
KsPoll ==
    /\ callerPc = "ks_poll"
    /\ mu = "free"
    /\ callerPc' = IF e = epoch THEN "ks_poll" ELSE "ks_done"
    /\ UNCHANGED <<remote, local, mu, stopping, epoch, notified, now, e,
                   loopPc, src_ents, new_ents, done, last_full_sync_time,
                   todo, cur, faulty, writes, ctor_local, dirty, changed,
                   kick_in_pass, passes, stop_returned, last_clear_time,
                   copyPc, copy_outcomes, copy_retries, copy_calls>>

\* _kick_sync returns to the caller
KsReturn ==
    /\ callerPc = "ks_done"
    /\ callerPc' = "idle"
    /\ e' = 0
    /\ UNCHANGED <<remote, local, mu, stopping, epoch, notified, now, loopPc,
                   src_ents, new_ents, done, last_full_sync_time, todo, cur,
                   faulty, writes, ctor_local, dirty, changed, kick_in_pass,
                   passes, stop_returned, last_clear_time, copyPc,
                   copy_outcomes, copy_retries, copy_calls>>

\* Syncer.stop: with self._mu: self._stopping = True; self._cond.notify()
StopCall ==
    /\ callerPc = "idle"
    /\ mu = "free"
    /\ stopping' = TRUE
    /\ notified' = Notify
    /\ callerPc' = "join"
    /\ UNCHANGED <<remote, local, mu, epoch, now, e, loopPc, src_ents,
                   new_ents, done, last_full_sync_time, todo, cur, faulty,
                   writes, ctor_local, dirty, changed, kick_in_pass, passes,
                   stop_returned, last_clear_time, copyPc, copy_outcomes,
                   copy_retries, copy_calls>>

\* stop() returns without joining the thread
StopWithoutJoin ==
    /\ callerPc = "join"
    /\ callerPc' = "idle"
    /\ stop_returned' = TRUE
    /\ UNCHANGED <<remote, local, mu, stopping, epoch, notified, now, e,
                   loopPc, src_ents, new_ents, done, last_full_sync_time,
                   todo, cur, faulty, writes, ctor_local, dirty, changed,
                   kick_in_pass, passes, last_clear_time, copyPc,
                   copy_outcomes, copy_retries, copy_calls>>

\* Syncer.stop: self._thread.join() returns once the thread has finished
StopJoin ==
    /\ callerPc = "join"
    /\ loopPc \in {"exited", "dead"}
    /\ callerPc' = "idle"
    /\ stop_returned' = TRUE
    /\ UNCHANGED <<remote, local, mu, stopping, epoch, notified, now, e,
                   loopPc, src_ents, new_ents, done, last_full_sync_time,
                   todo, cur, faulty, writes, ctor_local, dirty, changed,
                   kick_in_pass, passes, last_clear_time, copyPc,
                   copy_outcomes, copy_retries, copy_calls>>

(* ---------------------------------------------------------- Syncer._loop *)
\* the snapshot starts as the listing of the local directory
LoopBeginsFromListing ==
    /\ loopPc = "begin"
    /\ src_ents' = _list_dir(local)
    /\ last_full_sync_time' = now
    /\ done' = FALSE
    /\ loopPc' = "top"
    /\ ctor_local' = EmptyDir
    /\ last_clear_time' = now
    /\ UNCHANGED <<remote, local, mu, stopping, epoch, notified, now,
                   callerPc, e, new_ents, todo, cur, faulty, writes, dirty,
                   changed, kick_in_pass, passes, stop_returned, copyPc,
                   copy_outcomes, copy_retries, copy_calls>>

\* src_ents = {}; last_full_sync_time = time.time(); done = False
LoopBegin ==
    /\ loopPc = "begin"
    /\ src_ents' = EmptyEnts
    /\ last_full_sync_time' = now
    /\ done' = FALSE
    /\ loopPc' = "top"
    /\ ctor_local' = EmptyDir
    /\ last_clear_time' = now
    /\ UNCHANGED <<remote, local, mu, stopping, epoch, notified, now,
                   callerPc, e, new_ents, todo, cur, faulty, writes, dirty,
                   changed, kick_in_pass, passes, stop_returned, copyPc,
                   copy_outcomes, copy_retries, copy_calls>>

\* while not done: with self._mu:
LoopLock ==
    /\ loopPc = "top"
    /\ mu = "free"
    /\ mu' = "loop"
    /\ loopPc' = "locked"
    /\ UNCHANGED <<remote, local, stopping, epoch, notified, now, callerPc,
                   e, src_ents, new_ents, done, last_full_sync_time, todo,
                   cur, faulty, writes, ctor_local, dirty, changed,
                   kick_in_pass, passes, stop_returned, last_clear_time,
                   copyPc, copy_outcomes, copy_retries, copy_calls>>

\* the wait is entered without `self._epoch += 1`
LoopWaitsWithoutCount ==
    /\ loopPc = "locked"
    /\ notified' = FALSE
    /\ mu' = "free"
    /\ loopPc' = "wait"
    /\ UNCHANGED <<remote, local, stopping, epoch, now, callerPc, e,
                   src_ents, new_ents, done, last_full_sync_time, todo, cur,
                   faulty, writes, ctor_local, dirty, changed, kick_in_pass,
                   passes, stop_returned, last_clear_time, copyPc,
                   copy_outcomes, copy_retries, copy_calls>>

\* self._epoch += 1; self._cond.wait(60.0) releases the mutex and blocks
LoopIncWait ==
    /\ loopPc = "locked"
    /\ epoch' = epoch + 1
    /\ notified' = FALSE
    /\ mu' = "free"
    /\ loopPc' = "wait"
    /\ UNCHANGED <<remote, local, stopping, now, callerPc, e, src_ents,
                   new_ents, done, last_full_sync_time, todo, cur, faulty,
                   writes, ctor_local, dirty, changed, kick_in_pass, passes,
                   stop_returned, last_clear_time, copyPc, copy_outcomes,
                   copy_retries, copy_calls>>

\* Clock readings are kept up to the one at which a full sync is due.
Horizon == last_full_sync_time + _FULL_SYNC_INTERVAL_S

Later(t) == IF t + WAIT_TIMEOUT_S > Horizon THEN Horizon ELSE t + WAIT_TIMEOUT_S

\* The readings time.time() may return once the clock has reached t: what
\* the loop does with a reading depends only on whether it has reached
\* Horizon.
Readings(t) == {t, Horizon}

\* The passes explored: MaxPasses of them, and the one a stop asks for.
MayWake == epoch <= MaxPasses \/ stopping

\* Past MaxPasses the loop is still followed through its time-outs while the
\* directories differ: as many as it takes the clock to reach Horizon and the
\* caller to finish writing.
ExtraPasses == _FULL_SYNC_INTERVAL_S \div WAIT_TIMEOUT_S + MaxWrites + 1

MayTimeOut ==
    \/ MayWake
    \/ ~faulty /\ ~InSync /\ epoch <= MaxPasses + ExtraPasses

\* wait() returns because of a notify; it re-acquires the mutex
LoopWakeNotified ==
    /\ loopPc = "wait"
    /\ notified
    /\ mu = "free"
    /\ MayWake
    /\ notified' = FALSE
    /\ mu' = "loop"
    /\ loopPc' = "woken"
    /\ kick_in_pass' = FALSE
    /\ UNCHANGED <<remote, local, stopping, epoch, now, callerPc, e,
                   src_ents, new_ents, done, last_full_sync_time, todo, cur,
                   faulty, writes, ctor_local, dirty, changed, passes,
                   stop_returned, last_clear_time, copyPc, copy_outcomes,
                   copy_retries, copy_calls>>

\* wait() without a time-out: only a notify wakes the loop
LoopWaitsForever ==
    /\ FALSE
    /\ UNCHANGED vars

\* wait() returns because 60 seconds have passed; it re-acquires the mutex
LoopWakeTimeout ==
    /\ loopPc = "wait"
    /\ mu = "free"
    /\ MayTimeOut
    /\ now' = Later(now)
    /\ notified' = FALSE
    /\ mu' = "loop"
    /\ loopPc' = "woken"
    /\ kick_in_pass' = FALSE
    /\ UNCHANGED <<remote, local, stopping, epoch, callerPc, e, src_ents,
                   new_ents, done, last_full_sync_time, todo, cur, faulty,
                   writes, ctor_local, dirty, changed, passes, stop_returned,
                   last_clear_time, copyPc, copy_outcomes, copy_retries,
                   copy_calls>>

\* the pass is run inside the `with self._mu:` block
LoopKeepsLock ==
    /\ loopPc = "woken"
    /\ src_ents' = IF stopping THEN EmptyEnts ELSE src_ents
    /\ done' = IF stopping THEN TRUE ELSE done
    /\ loopPc' = "timecheck"
    /\ UNCHANGED <<remote, local, mu, stopping, epoch, notified, now,
                   callerPc, e, new_ents, last_full_sync_time, todo, cur,
                   faulty, writes, ctor_local, dirty, changed, kick_in_pass,
                   passes, stop_returned, last_clear_time, copyPc,
                   copy_outcomes, copy_retries, copy_calls>>

\* if self._stopping: src_ents = {}; done = True      (and the `with` ends)
LoopCheckStopping ==
    /\ loopPc = "woken"
    /\ src_ents' = IF stopping THEN EmptyEnts ELSE src_ents
    /\ done' = IF stopping THEN TRUE ELSE done
    /\ mu' = "free"
    /\ loopPc' = "timecheck"
    /\ UNCHANGED <<remote, local, stopping, epoch, notified, now, callerPc,
                   e, new_ents, last_full_sync_time, todo, cur, faulty,
                   writes, ctor_local, dirty, changed, kick_in_pass, passes,
                   stop_returned, last_clear_time, copyPc, copy_outcomes,
                   copy_retries, copy_calls>>

\* the periodic full sync is never due
LoopNeverFullSync ==
    /\ loopPc = "timecheck"
    /\ \E r \in Readings(now) : now' = r
    /\ loopPc' = "list"
    /\ UNCHANGED <<remote, local, mu, stopping, epoch, notified, callerPc, e,
                   src_ents, new_ents, done, last_full_sync_time, todo, cur,
                   faulty, writes, ctor_local, dirty, changed, kick_in_pass,
                   passes, stop_returned, last_clear_time, copyPc,
                   copy_outcomes, copy_retries, copy_calls>>

\* now = time.time(); if now - last_full_sync_time >= _FULL_SYNC_INTERVAL_S: ...
LoopFullSyncCheck ==
    /\ loopPc = "timecheck"
    /\ \E r \in Readings(now) :
          /\ now' = r
          /\ src_ents' = IF r - last_full_sync_time >= _FULL_SYNC_INTERVAL_S
                         THEN EmptyEnts
                         ELSE src_ents
          /\ last_clear_time' =
                IF r - last_full_sync_time >= _FULL_SYNC_INTERVAL_S
                THEN r
                ELSE last_clear_time
    /\ loopPc' = "list"
    /\ UNCHANGED <<remote, local, mu, stopping, epoch, notified, callerPc, e,
                   new_ents, done, last_full_sync_time, todo, cur, faulty,
                   writes, ctor_local, dirty, changed, kick_in_pass, passes,
                   stop_returned, copyPc, copy_outcomes, copy_retries,
                   copy_calls>>

\* new_ents = _list_dir(self._local_dir)
LoopList ==
    /\ loopPc = "list"
    /\ new_ents' = _list_dir(local)
    /\ todo' = DOMAIN local
    /\ loopPc' = "iter"
    /\ changed' = "no"
    /\ UNCHANGED <<remote, local, mu, stopping, epoch, notified, now,
                   callerPc, e, src_ents, done, last_full_sync_time, cur,
                   faulty, writes, ctor_local, dirty, kick_in_pass, passes,
                   stop_returned, last_clear_time, copyPc, copy_outcomes,
                   copy_retries, copy_calls>>

\* gfile.listdir / gfile.stat raises: the exception ends the loop thread.
LoopListFails ==
    /\ loopPc = "list"
    /\ faulty
    /\ loopPc' = "dead"
    /\ UNCHANGED <<remote, local, mu, stopping, epoch, notified, now,
                   callerPc, e, src_ents, new_ents, done,
                   last_full_sync_time, todo, cur, faulty, writes,
                   ctor_local, dirty, changed, kick_in_pass, passes,
                   stop_returned, last_clear_time, copyPc, copy_outcomes,
                   copy_retries, copy_calls>>

\* for name, ent in new_ents.items(): if not _has_file(src_ents, name, ent):
LoopNext ==
    /\ loopPc = "iter"
    /\ \E n \in todo :
          /\ todo' = todo \ {n}
          /\ IF ~_has_file(src_ents, n, new_ents[n])
             THEN cur' = n /\ loopPc' = "copy"
             ELSE cur' = cur /\ loopPc' = "iter"
    /\ UNCHANGED <<remote, local, mu, stopping, epoch, notified, now,
                   callerPc, e, src_ents, new_ents, done,
                   last_full_sync_time, faulty, writes, ctor_local, dirty,
                   changed, kick_in_pass, passes, stop_returned,
                   last_clear_time, copyPc, copy_outcomes, copy_retries,
                   copy_calls>>

\* the snapshot entry is written only when the copy has succeeded
LoopCopyRecordsSuccess ==
    /\ loopPc = "copy"
    /\ \E run \in CopyRuns[faulty] :
          /\ remote' = _copy_file(local, remote, cur, run)
          /\ dirty' = IF run.ok THEN dirty \ {cur} ELSE dirty
          /\ src_ents' = IF run.ok
                         THEN Put(src_ents, cur, new_ents[cur])
                         ELSE src_ents
    /\ cur' = NoName
    /\ loopPc' = "iter"
    /\ UNCHANGED <<local, mu, stopping, epoch, notified, now, callerPc, e,
                   new_ents, done, last_full_sync_time, todo, faulty, writes,
                   ctor_local, changed, kick_in_pass, passes, stop_returned,
                   last_clear_time, copyPc, copy_outcomes, copy_retries,
                   copy_calls>>

\* the copy is made from remote to local
LoopCopiesBack ==
    /\ loopPc = "copy"
    /\ \E run \in CopyRuns[faulty] :
          local' = IF cur \in DOMAIN remote
                   THEN _copy_file(remote, local, cur, run)
                   ELSE local
    /\ src_ents' = Put(src_ents, cur, new_ents[cur])
    /\ cur' = NoName
    /\ loopPc' = "iter"
    /\ UNCHANGED <<remote, mu, stopping, epoch, notified, now, callerPc, e,
                   new_ents, done, last_full_sync_time, todo, faulty, writes,
                   ctor_local, dirty, changed, kick_in_pass, passes,
                   stop_returned, last_clear_time, copyPc, copy_outcomes,
                   copy_retries, copy_calls>>

\* the copy is made but `src_ents[name] = ent` is left out
LoopCopyForgets ==
    /\ loopPc = "copy"
    /\ \E run \in CopyRuns[faulty] :
          /\ remote' = _copy_file(local, remote, cur, run)
          /\ dirty' = IF run.ok THEN dirty \ {cur} ELSE dirty
    /\ cur' = NoName
    /\ loopPc' = "iter"
    /\ UNCHANGED <<local, mu, stopping, epoch, notified, now, callerPc, e,
                   src_ents, new_ents, done, last_full_sync_time, todo,
                   faulty, writes, ctor_local, changed, kick_in_pass, passes,
                   stop_returned, last_clear_time, copyPc, copy_outcomes,
                   copy_retries, copy_calls>>

\* _copy_file(self._local_dir, self._remote_dir, name); src_ents[name] = ent
LoopCopyReturn ==
    /\ loopPc = "copy"
    /\ \E run \in CopyRuns[faulty] :
          /\ remote' = _copy_file(local, remote, cur, run)
          /\ dirty' = IF run.ok THEN dirty \ {cur} ELSE dirty
    /\ src_ents' = Put(src_ents, cur, new_ents[cur])
    /\ cur' = NoName
    /\ loopPc' = "iter"
    /\ UNCHANGED <<local, mu, stopping, epoch, notified, now, callerPc, e,
                   new_ents, done, last_full_sync_time, todo, faulty, writes,
                   ctor_local, changed, kick_in_pass, passes, stop_returned,
                   last_clear_time, copyPc, copy_outcomes, copy_retries,
                   copy_calls>>

\* the `for` loop is over: back to `while not done`
LoopPassEnd ==
    /\ loopPc = "iter"
    /\ todo = {}
    /\ loopPc' = IF done THEN "exited" ELSE "top"
    /\ new_ents' = EmptyEnts
    /\ passes' = passes + 1
    /\ UNCHANGED <<remote, local, mu, stopping, epoch, notified, now,
                   callerPc, e, src_ents, done, last_full_sync_time, todo,
                   cur, faulty, writes, ctor_local, dirty, changed,
                   kick_in_pass, stop_returned, last_clear_time, copyPc,
                   copy_outcomes, copy_retries, copy_calls>>

(* -------------------------------------------------------- specification *)
LoopStep ==
    \/ LoopBegin \/ LoopLock \/ LoopIncWait \/ LoopWakeNotified
    \/ LoopWakeTimeout \/ LoopCheckStopping \/ LoopFullSyncCheck \/ LoopList
    \/ LoopListFails \/ LoopNext \/ LoopCopyReturn \/ LoopPassEnd

Next ==
    \/ CtorList \/ CtorListFails \/ CtorNext \/ CtorCopyReturn \/ CtorStartThread
    \/ \E n \in Names, d \in Data : Write(n, d)
    \/ StopWriting
    \/ Kick \/ KsEpoch \/ KsKick \/ KsPoll \/ KsReturn
    \/ StopCall \/ StopJoin
    \/ LoopBegin \/ LoopLock \/ LoopIncWait \/ LoopWakeNotified
    \/ LoopWakeTimeout \/ LoopCheckStopping \/ LoopFullSyncCheck \/ LoopList
    \/ LoopListFails \/ LoopNext \/ LoopCopyReturn \/ LoopPassEnd

Spec == Init /\ [][Next]_vars

\* The scheduler runs the loop thread whenever it can take a step (a wait
\* that nothing notifies times out), and the caller's join returns once the
\* thread has finished.
SpecFair == Spec /\ WF_vars(LoopStep) /\ WF_vars(StopJoin)


(* ------------------------------------------- _copy_file, call by call *)
\* One _copy_file call on its own, for every sequence of outcomes of the
\* gfile.copy calls it may make.
InitCopy ==
    /\ SyncerInit
    /\ remote = EmptyDir /\ local = EmptyDir /\ faulty
    /\ copyPc = "try"
    /\ copy_outcomes \in [1..MAX_ATTEMPTS -> BOOLEAN]
    /\ copy_retries = 0
    /\ copy_calls = 0

\* the `return` after a successful gfile.copy is left out
CopyGoesOnAfterSuccess ==
    /\ copyPc = "try"
    /\ copy_retries < MAX_ATTEMPTS
    /\ copy_outcomes[copy_retries + 1]
    /\ copy_calls' = copy_calls + 1
    /\ copy_retries' = copy_retries + 1
    /\ UNCHANGED <<remote, local, mu, stopping, epoch, notified, now,
                   callerPc, e, loopPc, src_ents, new_ents, done,
                   last_full_sync_time, todo, cur, faulty, writes,
                   ctor_local, dirty, changed, kick_in_pass, passes,
                   stop_returned, last_clear_time, copyPc, copy_outcomes>>

\* gfile.copy(src_path, dest_path, overwrite=True) succeeds: return
CopyCallSucceeds ==
    /\ copyPc = "try"
    /\ copy_retries < MAX_ATTEMPTS
    /\ copy_outcomes[copy_retries + 1]
    /\ copy_calls' = copy_calls + 1
    /\ copyPc' = "returned"
    /\ UNCHANGED <<remote, local, mu, stopping, epoch, notified, now,
                   callerPc, e, loopPc, src_ents, new_ents, done,
                   last_full_sync_time, todo, cur, faulty, writes,
                   ctor_local, dirty, changed, kick_in_pass, passes,
                   stop_returned, last_clear_time, copy_outcomes,
                   copy_retries>>

\* gfile.copy raises tf.errors.OpError: log, sleep, next value of `retries`
CopyCallFails ==
    /\ copyPc = "try"
    /\ copy_retries < MAX_ATTEMPTS
    /\ ~copy_outcomes[copy_retries + 1]
    /\ copy_calls' = copy_calls + 1
    /\ copy_retries' = copy_retries + 1
    /\ UNCHANGED <<remote, local, mu, stopping, epoch, notified, now,
                   callerPc, e, loopPc, src_ents, new_ents, done,
                   last_full_sync_time, todo, cur, faulty, writes,
                   ctor_local, dirty, changed, kick_in_pass, passes,
                   stop_returned, last_clear_time, copyPc, copy_outcomes>>

\* range(0, 10) is exhausted: the function returns
CopyGivesUp ==
    /\ copyPc = "try"
    /\ copy_retries >= MAX_ATTEMPTS
    /\ copyPc' = "returned"
    /\ UNCHANGED <<remote, local, mu, stopping, epoch, notified, now,
                   callerPc, e, loopPc, src_ents, new_ents, done,
                   last_full_sync_time, todo, cur, faulty, writes,
                   ctor_local, dirty, changed, kick_in_pass, passes,
                   stop_returned, last_clear_time, copy_outcomes,
                   copy_retries, copy_calls>>

NextCopy == CopyCallSucceeds \/ CopyCallFails \/ CopyGivesUp

SpecCopy == InitCopy /\ [][NextCopy]_vars
(* ================================================================ claims *)
ListStep == loopPc = "list" /\ loopPc' = "iter"

\* The pass that is listing keeps the remembered snapshot.
KeepsSnapshot == ~done /\ now - last_full_sync_time < _FULL_SYNC_INTERVAL_S

Alive == loopPc \notin {"unstarted", "exited", "dead"}

\* C1: when _kick_sync's poll first sees the epoch changed (and no copy has
\* failed), every file the caller wrote to local before the call - the new
\* file in particular - is in remote, with the content of the local file.
C1_KickSyncPushes ==
    (callerPc = "ks_done" /\ ~faulty) =>
        \A n \in DOMAIN local :
            /\ n \in DOMAIN remote
            /\ n \notin dirty => remote[n].data = local[n].data

\* C2: when the first stop() returns, the loop thread has left its loop
\* through the pass that saw the stopping flag: that pass started from an
\* emptied snapshot and recorded, after a copy call for it, every file the
\* local directory holds.
C2_StopRunsFinalPass ==
    [][(callerPc = "join" /\ callerPc' = "idle" /\ ~stop_returned) =>
          (loopPc = "exited" /\ done /\ DOMAIN local \subseteq DOMAIN src_ents)]_vars

\* C3: constructed on an empty local directory, with every copy succeeding,
\* the constructor returns with every remote entry in local, with the remote
\* content; the loop has not yet run.
C3_ConstructorPulls ==
    (loopPc = "begin" /\ ~faulty /\ ctor_local = EmptyDir /\ dirty = {}) =>
        \A n \in DOMAIN remote :
            n \in DOMAIN local /\ local[n].data = remote[n].data

C3_Witness ==
    /\ loopPc = "begin" /\ ~faulty /\ ctor_local = EmptyDir /\ dirty = {}
    /\ DOMAIN remote = Names
    /\ DOMAIN local = Names

\* C4 as claimed: a file recorded in the snapshot and written since its push
\* is found changed by the next listing, whatever the write changed, so that
\* the pass copies it.
C4_AnyChangeIsCopied ==
    [][(ListStep /\ ~faulty) =>
          \A n \in dirty \cap DOMAIN src_ents :
              ~_has_file(src_ents, n, new_ents'[n])]_vars

\* C4 as amended: a file recorded in the snapshot and written since its push
\* is found changed by the next listing if its size or its modification time
\* now differs from the snapshot's, so that the pass copies it; and a file not
\* written since its last successful push has the same content in remote.
C4_ChangedStatIsCopied ==
    [][/\ ListStep =>
            \A n \in dirty \cap DOMAIN src_ents :
                (\/ Length(local[n].data) # src_ents[n].length
                 \/ local[n].mtime # src_ents[n].mtime_nsec)
                    => ~_has_file(src_ents, n, new_ents'[n])
       /\ \A n \in DOMAIN local' \ dirty' :
            n \in DOMAIN remote' /\ remote'[n].data = local'[n].data]_vars

C4_Witness ==
    /\ loopPc = "copy"
    /\ passes >= 1
    /\ cur \in dirty \cap DOMAIN src_ents
    /\ src_ents[cur] # new_ents[cur]

\* C5: a kick() that arrives while the loop is executing a pass is not lost:
\* the wait that follows the pass has been notified and returns at once.
C5_KickInPassNotLost == (loopPc = "wait" /\ kick_in_pass) => notified

\* C6: every stop() call eventually returns, wherever the loop was when it
\* was made.
C6_StopReturns == (callerPc = "join") ~> (callerPc = "idle")

C6_Witness == callerPc = "join" /\ loopPc = "copy" /\ ~done /\ ~stop_returned

\* C7: when no copy and no listing fails, once the caller has stopped writing
\* while the loop runs, remote eventually holds every local entry with the
\* local content.
C7_EventuallyInSync == (~faulty /\ writes = MaxWrites /\ Alive) ~> InSync

C7_Witness ==
    /\ ~faulty /\ ~stopping /\ writes = MaxWrites
    /\ epoch > MaxPasses + 1
    /\ dirty = {} /\ InSync /\ DOMAIN local # {}

\* C8: once a stop() has returned the loop thread is gone and the mutex is
\* free, so that stop(), kick() and epoch() return at once; nothing is listed
\* or copied any more and the epoch stays.
C8_AfterStop ==
    [][stop_returned =>
          /\ loopPc \in {"exited", "dead"}
          /\ mu = "free"
          /\ UNCHANGED <<loopPc, epoch, remote, src_ents, new_ents, todo, cur>>]_vars

C8_Witness == stop_returned /\ callerPc = "ks_poll" /\ loopPc = "exited"

\* C9 as claimed: after a completed pass, a pass that keeps the snapshot and
\* lists a local directory not written since that pass ended copies nothing.
C9_UnchangedSincePassEnd ==
    [][(ListStep /\ passes >= 1 /\ KeepsSnapshot /\ changed # "after_pass") =>
          \A n \in DOMAIN new_ents' : _has_file(src_ents', n, new_ents'[n])]_vars

\* C9 as amended: after a completed pass, a pass that keeps the snapshot and
\* lists a local directory not written since that pass listed it copies
\* nothing.
C9_UnchangedSinceListing ==
    [][(ListStep /\ passes >= 1 /\ KeepsSnapshot /\ changed = "no") =>
          \A n \in DOMAIN new_ents' : _has_file(src_ents', n, new_ents'[n])]_vars

C9_Witness ==
    /\ loopPc = "iter" /\ todo = Names
    /\ passes >= 1 /\ KeepsSnapshot /\ changed = "no"
    /\ \A n \in Names : _has_file(src_ents, n, new_ents[n])

\* C10: the value epoch() returns is the number of watch passes run.
C10_EpochCountsPasses == epoch = passes

\* The loop iterations begun: the passes completed, and the iteration the
\* loop thread is in once it is past `self._epoch += 1`.
IterationsBegun(pc, completed) ==
    completed + IF pc \in {"wait", "woken", "timecheck", "list", "iter",
                           "copy", "dead"}
                THEN 1 ELSE 0

\* C11: the epoch never decreases; a step that changes it is the loop
\* thread's, holding the mutex at the start of an iteration before the wait,
\* and adds exactly 1; every iteration does so, so that the epoch is the
\* number of iterations begun; kick(), stop() and epoch() leave it alone.
C11_EpochCountsIterations ==
    [][/\ \/ epoch' = epoch
          \/ /\ epoch' = epoch + 1
             /\ loopPc = "locked" /\ loopPc' = "wait" /\ mu = "loop"
             /\ callerPc' = callerPc
       /\ epoch' = IterationsBegun(loopPc', passes')]_vars

C11_Witness ==
    /\ epoch = 2 /\ loopPc = "wait"
    /\ kick_in_pass /\ stop_returned = FALSE /\ callerPc = "ks_poll"

\* The constructor has returned: the loop thread has been started.
Constructed == loopPc # "unstarted"

\* C12: once the constructor has returned, only the caller's own writes
\* change the local directory, no remote entry is removed, and a remote
\* entry is written only by the loop's copy in flight, under a name of the
\* pass's local listing and with the local file's content.
C12_OneDirectional ==
    [][Constructed =>
          /\ local' # local => (callerPc = "idle" /\ writes' = writes + 1)
          /\ DOMAIN remote \subseteq DOMAIN remote'
          /\ \A n \in DOMAIN remote' :
                (n \notin DOMAIN remote \/ remote'[n] # remote[n]) =>
                    /\ loopPc = "copy" /\ n = cur
                    /\ n \in DOMAIN new_ents
                    /\ remote'[n].data = local[n].data]_vars

C12_Witness ==
    /\ Constructed /\ passes >= 1
    /\ DOMAIN local = Names /\ DOMAIN remote = Names
    /\ \E n \in Names : remote[n].data # 1 /\ remote[n].data = local[n].data

\* C13: the loop thread holds the mutex only between locking it and entering
\* the wait, and between waking and having read the stopping flag; it is free
\* while the loop waits, reads the clock, lists or copies, so that kick() and
\* epoch() can run then; and only stop() sets the stopping flag.
C13_MutexFreeInPass ==
    [][/\ mu' = "loop" => loopPc' \in {"locked", "woken"}
       /\ (loopPc' = "wait" \/ InPass') => mu' = "free"
       /\ stopping' # stopping => (callerPc = "idle" /\ callerPc' = "join")]_vars

C13_Witness == loopPc = "copy" /\ kick_in_pass /\ callerPc = "ks_poll" /\ mu = "free"

\* The step of a watch pass that reads the clock: whether it clears the
\* snapshot (`src_ents = {}` of the periodic full sync).
ClockStep == loopPc = "timecheck" /\ loopPc' = "list"

ClearsSnapshot == now' - last_full_sync_time >= _FULL_SYNC_INTERVAL_S

\* C14: a watch pass that is not the final stop pass clears the snapshot
\* exactly when 6 minutes or more have passed since the last pass that
\* cleared it, or since the loop started when none has.
C14_ClearsEverySixMinutes ==
    [][(ClockStep /\ ~done) =>
          (ClearsSnapshot <=>
              now' - last_clear_time >= _FULL_SYNC_INTERVAL_S)]_vars

\* C15: a watch pass whose listing of the local directory fails is given up
\* with nothing copied, and the loop thread goes back to the top of its loop
\* for the next iteration.
C15_ListingErrorEndsPassOnly ==
    [][(loopPc = "list" /\ loopPc' \notin {"list", "iter"}) =>
          (loopPc' = "top" /\ remote' = remote)]_vars

\* The step in which a _copy_file call of the pass returns, and the step in
\* which the `for` loop visits its next entry.
CopyStep == loopPc = "copy" /\ loopPc' = "iter"

VisitStep == loopPc = "iter" /\ todo' # todo

\* C16: when a copy of the pass returns, whether or not any of its attempts
\* succeeded, the listed stat of the file is recorded in the snapshot and the
\* pass goes on with the entries left; and an entry whose listed size and
\* modification time equal the recorded ones is passed over without a copy
\* call, in every pass that runs on the kept snapshot.
C16_FailedCopyIsRecorded ==
    [][/\ CopyStep =>
            /\ cur \in DOMAIN src_ents' /\ src_ents'[cur] = new_ents[cur]
            /\ todo' = todo /\ new_ents' = new_ents
       /\ VisitStep =>
            \A n \in todo \ todo' :
                (n \in DOMAIN src_ents /\ src_ents[n] = new_ents[n])
                    => (loopPc' = "iter" /\ remote' = remote)]_vars

C16_Witness ==
    /\ loopPc = "iter" /\ KeepsSnapshot /\ passes >= 1
    /\ \E n \in todo :
          /\ n \notin DOMAIN remote
          /\ n \in DOMAIN src_ents /\ src_ents[n] = new_ents[n]

\* C17: whatever the outcomes of the gfile.copy calls, _copy_file makes its
\* calls one after another until the first success or until 10 calls have
\* been made: never more than 10, none after a success; it can always go on
\* until it returns, and it returns having made the calls, and with the
\* result, that CopyAttempts gives.
C17_CopyRetries ==
    /\ copyPc \in {"try", "returned"}
    /\ copy_calls <= MAX_ATTEMPTS
    /\ \A i \in 1..(copy_calls - 1) : ~copy_outcomes[i]
    /\ copyPc = "try" =>
          /\ ENABLED NextCopy
          /\ \A i \in 1..copy_calls : ~copy_outcomes[i]
    /\ copyPc = "returned" =>
          /\ \/ copy_calls >= 1 /\ copy_outcomes[copy_calls]
             \/ copy_calls = MAX_ATTEMPTS
          /\ CopyAttempts(copy_outcomes, 0) =
                [calls |-> copy_calls,
                 ok |-> copy_calls >= 1 /\ copy_outcomes[copy_calls]]

C17_Witness ==
    /\ copyPc = "returned" /\ copy_calls = 3
    /\ copy_outcomes[3] /\ ~copy_outcomes[4] /\ copy_outcomes[5]

\* C18: when the constructor's `for` loop visits a remote entry, it calls the
\* copy for it exactly when the local directory has no matching entry of
\* that name: one with the size and the modification time of the remote
\* entry listed (equal times are within any tolerance).
C18_ConstructorSkipsMatching ==
    [][(callerPc = "ctor_iter" /\ todo' # todo) =>
          \A n \in todo \ todo' :
              (callerPc' = "ctor_copy" /\ cur' = n) <=>
                  ~(/\ n \in DOMAIN local
                    /\ Length(local[n].data) = new_ents[n].length
                    /\ local[n].mtime = new_ents[n].mtime_nsec)]_vars

\* C19: a stop() made while the loop thread is not waiting is seen without a
\* wait for the time-out: when the loop enters its wait with the stopping
\* flag set, the wait has been notified and returns at once.
C19_StopWakesLoop == (loopPc = "wait" /\ stopping) => notified

\* C20: the loop starts with an empty snapshot, so that its first pass calls
\* the copy for every entry it visits, the entries the constructor has just
\* pulled included; when the copy succeeds the remote entry holds the local
\* content.
C20_FirstPassCopiesAll ==
    [][/\ (loopPc' = "top" /\ passes' = 0) => src_ents' = EmptyEnts
       /\ (VisitStep /\ passes = 0) =>
            (loopPc' = "copy" /\ cur' \in todo \ todo')
       /\ (CopyStep /\ passes = 0 /\ ~faulty) =>
            remote'[cur].data = local[cur].data]_vars

C20_Witness ==
    /\ loopPc = "copy" /\ passes = 0 /\ ~done
    /\ dirty = {} /\ writes = 0
    /\ cur \in DOMAIN remote /\ remote[cur] = local[cur]

====
